---- MODULE Spec2Model ----
(***************************************************************************)
(* Model of tour.py: the data engine (load_gov_data), the forecast engine  *)
(* (generate_forecast) and the main script that calls them and derives the *)
(* 2026 totals and the market share.                                       *)
(*                                                                         *)
(* Calendar months are integers y*12 + (m-1); a date is a month and a day  *)
(* of month.  A numeric cell is a record [nan, v]: pandas' missing value   *)
(* NaN is [nan |-> TRUE].  Segment weights are kept in percent, so that    *)
(* arrivals * weight truncated to an integer is (arrivals * pct) \div 100. *)
(***************************************************************************)
EXTENDS Integers, Sequences, FiniteSets, TLC

VARIABLES
    pc,                     \* position of the script
    source,                 \* the remote dataset: [fault, rows]
    raw_df,                 \* result of load_gov_data
    diag,                   \* st.error messages emitted so far
    main_df,                \* display table (year >= 2022) with Muslim_Est
    raw_df_muslim,          \* table fed to the segment forecast
    gf_total,               \* the call generate_forecast(raw_df, 'arrivals')
    gf_muslim,              \* the call generate_forecast(raw_df_muslim, 'Muslim_Est')
    combined_trend,         \* rows of pd.concat([hist_total, pred_total]), filtered
    combined_muslim_trend,  \* rows of pd.concat([hist_muslim, pred_muslim]), filtered
    totals,                 \* act_2026, fc_2026, total_2026
    page,                   \* the page rendered
    view,                   \* what the rendered page computed
    exc                     \* the exception that escaped to the framework, if any

vars == <<pc, source, raw_df, diag, main_df, raw_df_muslim, gf_total, gf_muslim,
          combined_trend, combined_muslim_trend, totals, page, view, exc>>

----------------------------------------------------------------------------
(* Bounds of the model *)

MaxExtra == 1

ArrivalUnit == 100

----------------------------------------------------------------------------
(* Calendar *)

YM(y, m) == y * 12 + (m - 1)

YearOf(mi) == mi \div 12

MonthOf(mi) == (mi % 12) + 1

MonthStart(mi) == [m |-> mi, d |-> 1]

DateLE(a, b) == a.m < b.m \/ (a.m = b.m /\ a.d <= b.d)

----------------------------------------------------------------------------
(* Numeric cells *)

NaN == [nan |-> TRUE, v |-> 0]

Num(x) == [nan |-> FALSE, v |-> x]

RECURSIVE SumCells(_, _)
\* Series.sum(): missing values are skipped
SumCells(cells, n) ==
    IF n = 0 THEN 0
    ELSE SumCells(cells, n - 1) + (IF cells[n].nan THEN 0 ELSE cells[n].v)

----------------------------------------------------------------------------
(* 1. Configuration and mappings *)

ISO_MAP ==
    [c \in {"SGP", "IDN", "CHN", "THA", "BRN", "IND", "KOR", "VNM", "AUS", "PHL",
            "GBR", "JPN", "USA", "TWN", "DEU", "SAU", "NLD", "FRA", "RUS"} |->
        CASE c = "SGP" -> "Singapore"      [] c = "IDN" -> "Indonesia"
          [] c = "CHN" -> "China"          [] c = "THA" -> "Thailand"
          [] c = "BRN" -> "Brunei"         [] c = "IND" -> "India"
          [] c = "KOR" -> "South Korea"    [] c = "VNM" -> "Vietnam"
          [] c = "AUS" -> "Australia"      [] c = "PHL" -> "Philippines"
          [] c = "GBR" -> "United Kingdom" [] c = "JPN" -> "Japan"
          [] c = "USA" -> "United States"  [] c = "TWN" -> "Taiwan"
          [] c = "DEU" -> "Germany"        [] c = "SAU" -> "Saudi Arabia"
          [] c = "NLD" -> "Netherlands"    [] c = "FRA" -> "France"
          [] c = "RUS" -> "Russia"]

\* weights in percent
RELIGION_PROXY ==
    [n \in {"Indonesia", "Brunei", "Saudi Arabia", "Turkey", "Bangladesh",
            "Pakistan", "Egypt", "Iran", "India", "Singapore", "China",
            "Thailand", "United Kingdom", "Australia", "Philippines"} |->
        CASE n = "Indonesia" -> 87      [] n = "Brunei" -> 81
          [] n = "Saudi Arabia" -> 100  [] n = "Turkey" -> 99
          [] n = "Bangladesh" -> 90     [] n = "Pakistan" -> 96
          [] n = "Egypt" -> 90          [] n = "Iran" -> 99
          [] n = "India" -> 14          [] n = "Singapore" -> 15
          [] n = "China" -> 2           [] n = "Thailand" -> 5
          [] n = "United Kingdom" -> 6  [] n = "Australia" -> 3
          [] n = "Philippines" -> 6]

DefaultRatio == 5

LoadCutoffYear == 2019

DisplayCutoffYear == 2022

seasonal_periods == 12

\* pd.Timestamp("2026-12-01")
target_date == YM(2026, 12)

----------------------------------------------------------------------------
(* The remote dataset *)

Faults == {"none", "network", "bad_date", "no_date_column", "no_country_column"}

Countries == {"IDN", "Turkey", "ZZZ"}

Days == {1, 15}

BlockStart == YM(2024, 11)

\* a block of contiguous month-start rows: 23 months (to 2026-09), 24 months
\* (to 2026-10) or 26 months (to 2026-12)
BlockLens == {2 * seasonal_periods - 1, 2 * seasonal_periods, 2 * seasonal_periods + 2}

ExtraMonths == {YM(2018, 12), YM(2024, 10), YM(2025, 6), YM(2027, 1)}

SourceRow(mi, d, c, a) == [date |-> [m |-> mi, d |-> d], country |-> c, arrivals |-> a]

BlockRows(len, c, a) == [i \in 1 .. len |-> SourceRow(BlockStart + i - 1, 1, c, a)]

ExtraRows == {SourceRow(mi, d, c, ArrivalUnit) : mi \in ExtraMonths, d \in Days, c \in Countries}

ExtraSeqs == UNION {[1 .. n -> ExtraRows] : n \in 0 .. MaxExtra}

\* a readable dataset is a block followed by extra rows; a dataset on which
\* the load fails is a block (its rows are never seen)
Sources ==
    {[fault |-> "none", rows |-> BlockRows(len, "IDN", a) \o ex] :
        len \in BlockLens, a \in {0, ArrivalUnit}, ex \in ExtraSeqs}
    \cup
    {[fault |-> f, rows |-> BlockRows(len, "IDN", a)] :
        f \in Faults \ {"none"}, len \in BlockLens, a \in {0, ArrivalUnit}}

----------------------------------------------------------------------------
(* 2. Data engine *)

CountryName(c) == IF c \in DOMAIN ISO_MAP THEN ISO_MAP[c] ELSE c

RECURSIVE SelectRows(_, _, _)
\* boolean-mask selection: the rows i <= n of df with keep[i], in order
SelectRows(df, keep, n) ==
    IF n = 0 THEN <<>>
    ELSE IF keep[n] THEN Append(SelectRows(df, keep, n - 1), df[n])
         ELSE SelectRows(df, keep, n - 1)

CleanRow(src, i) ==
    [idx |-> i, date |-> src[i].date, year |-> YearOf(src[i].date.m),
     country |-> src[i].country, Country_Name |-> CountryName(src[i].country),
     arrivals |-> src[i].arrivals]

\* the statement of load_gov_data's try block at which a fault of the
\* source raises
FailingStep(fault) ==
    CASE fault = "network"           -> "read_parquet"
      [] fault = "bad_date"          -> "to_datetime"
      [] fault = "no_date_column"    -> "to_datetime"
      [] fault = "no_country_column" -> "map_country"
      [] OTHER                       -> "none"

\* the try body on a source without fault
LoadedTable(rows) ==
    LET all  == [i \in 1 .. Len(rows) |-> CleanRow(rows, i)]
        keep == [i \in 1 .. Len(all) |-> all[i].year >= LoadCutoffYear]
    IN  SelectRows(all, keep, Len(all))

\* a try block that covers the read only
load_gov_data_narrow_try(s) ==
    IF FailingStep(s.fault) = "read_parquet"
    THEN [raised |-> FALSE, error |-> "Data Error: " \o s.fault, df |-> <<>>]
    ELSE IF FailingStep(s.fault) # "none"
    THEN [raised |-> TRUE, error |-> "", df |-> <<>>]
    ELSE [raised |-> FALSE, error |-> "", df |-> LoadedTable(s.rows)]

\* load_gov_data: [raised, error, df]; raised: an exception reached the caller
load_gov_data(s) ==
    IF FailingStep(s.fault) # "none"
    THEN \* except Exception as e: st.error(...); return pd.DataFrame()
         [raised |-> FALSE, error |-> "Data Error: " \o s.fault, df |-> <<>>]
    ELSE [raised |-> FALSE, error |-> "", df |-> LoadedTable(s.rows)]

----------------------------------------------------------------------------
(* Segment estimate *)

\* Country_Name.map(RELIGION_PROXY).fillna(0.05)
MainRatio(row) ==
    IF row.Country_Name \in DOMAIN RELIGION_PROXY
    THEN RELIGION_PROXY[row.Country_Name] ELSE DefaultRatio

\* country.map(ISO_MAP).map(RELIGION_PROXY).fillna(0.05)
MuslimRatio(row) ==
    IF row.country \in DOMAIN ISO_MAP /\ ISO_MAP[row.country] \in DOMAIN RELIGION_PROXY
    THEN RELIGION_PROXY[ISO_MAP[row.country]] ELSE DefaultRatio

\* (arrivals * ratio).astype(int)
Estimate(arrivals, ratio) == (arrivals * ratio) \div 100

WithEstimate(row, ratio) ==
    [idx |-> row.idx, date |-> row.date, year |-> row.year, country |-> row.country,
     Country_Name |-> row.Country_Name, arrivals |-> row.arrivals,
     Muslim_Ratio |-> ratio, Muslim_Est |-> Estimate(row.arrivals, ratio)]

MainTable(df) ==
    LET keep == [i \in 1 .. Len(df) |-> df[i].year >= DisplayCutoffYear]
        sel  == SelectRows(df, keep, Len(df))
    IN  [i \in 1 .. Len(sel) |-> WithEstimate(sel[i], MainRatio(sel[i]))]

MuslimTable(df) == [i \in 1 .. Len(df) |-> WithEstimate(df[i], MuslimRatio(df[i]))]

----------------------------------------------------------------------------
(* 3. Forecast engine *)

ColValue(row, col) == IF col = "arrivals" THEN row.arrivals ELSE row.Muslim_Est

RECURSIVE GroupSum(_, _, _, _)
\* the sum of col over the rows i <= n of df whose date is exactly d
GroupSum(df, col, d, n) ==
    IF n = 0 THEN 0
    ELSE GroupSum(df, col, d, n - 1) + (IF df[n].date = d THEN ColValue(df[n], col) ELSE 0)

Dates(df) == {df[i].date : i \in DOMAIN df}

RECURSIVE MinDateUpTo(_, _)
MinDateUpTo(df, n) ==
    IF n = 1 THEN df[1].date
    ELSE LET r == MinDateUpTo(df, n - 1)
         IN  IF DateLE(r, df[n].date) THEN r ELSE df[n].date

RECURSIVE MaxDateUpTo(_, _)
MaxDateUpTo(df, n) ==
    IF n = 1 THEN df[1].date
    ELSE LET r == MaxDateUpTo(df, n - 1)
         IN  IF DateLE(df[n].date, r) THEN r ELSE df[n].date

\* index.min() and index.max() of the grouped series
MinDate(df) == MinDateUpTo(df, Len(df))

MaxDate(df) == MaxDateUpTo(df, Len(df))

\* date_range(min, max, freq='MS'): the first month start at or after min
FirstIndexMonth(df) == LET lo == MinDate(df) IN IF lo.d = 1 THEN lo.m ELSE lo.m + 1

\* df.groupby("date")[col].sum().asfreq('MS'): one point per month start
\* between the first and the last date; the value of the group dated exactly
\* at the month start, NaN when there is no such group
MonthlyData(df, col) ==
    LET ds    == Dates(df)
        first == FirstIndexMonth(df)
        last  == MaxDate(df).m
    IN  [k \in 1 .. (last - first + 1) |->
            LET mi == first + k - 1
            IN  [date |-> mi,
                 v    |-> IF MonthStart(mi) \in ds
                          THEN Num(GroupSum(df, col, MonthStart(mi), Len(df)))
                          ELSE NaN]]

HasNaN(series) == \E k \in DOMAIN series : series[k].v.nan

\* ExponentialSmoothing(...).fit(...) raises on a series shorter than two
\* seasonal cycles (the initial seasonal effects cannot be computed); on a
\* series with missing values it either raises or fits missing values,
\* depending on the library build (nan_raises); otherwise the fit succeeds
FitRaises(series, nan_raises) ==
    \/ Len(series) < 2 * seasonal_periods
    \/ HasNaN(series) /\ nan_raises

IsConstant(series) == \A k \in DOMAIN series : series[k].v = series[1].v

\* the outcomes the fit can have on a series (see FitRaises)
FitOutcomes(series) == IF HasNaN(series) THEN BOOLEAN ELSE {FALSE}

\* the level the fitted model projects: on a constant series the fit is exact
\* (level = the constant, no trend, no seasonal effect) and projects the
\* constant; on any other series the level is left open
ForecastLevels(series) ==
    IF Len(series) = 0 \/ HasNaN(series) THEN {0}
    ELSE IF IsConstant(series) THEN {series[1].v.v}
    ELSE {0, ArrivalUnit}

\* one projected cell: missing when the fitted series had missing values
ForecastCell(series, level) == IF HasNaN(series) THEN NaN ELSE Num(level)

\* the month difference without the year term
MonthsNeeded_month_only(last_date) == MonthOf(target_date) - MonthOf(last_date)

MonthsNeeded(last_date) ==
    (YearOf(target_date) - YearOf(last_date)) * 12
        + (MonthOf(target_date) - MonthOf(last_date))

EmptyFrame == [columns |-> {}, rows |-> <<>>]

NoCall ==
    [called |-> FALSE, raised |-> FALSE, col |-> "", monthly_data |-> <<>>,
     months_needed |-> 0, projected |-> FALSE, history |-> EmptyFrame,
     forecast |-> EmptyFrame]

\* generate_forecast(df, value_column), with the outcome of the library's fit
\* (nan_raises, level) as parameters
generate_forecast(df, col, nan_raises, level) ==
    LET monthly_data == MonthlyData(df, col)
    IN  IF FitRaises(monthly_data, nan_raises)
        THEN [called |-> TRUE, raised |-> TRUE, col |-> col,
              monthly_data |-> monthly_data, months_needed |-> 0,
              projected |-> FALSE, history |-> EmptyFrame, forecast |-> EmptyFrame]
        ELSE
        LET last_date     == monthly_data[Len(monthly_data)].date
            months_needed == MonthsNeeded(last_date)
        IN  IF months_needed <= 0
            THEN \* return monthly_data.reset_index(), pd.DataFrame()
                 [called |-> TRUE, raised |-> FALSE, col |-> col,
                  monthly_data |-> monthly_data, months_needed |-> months_needed,
                  projected |-> FALSE,
                  history |-> [columns |-> {"date", col},
                               rows |-> [k \in DOMAIN monthly_data |->
                                   [date |-> monthly_data[k].date,
                                    v |-> monthly_data[k].v, Type |-> "NaN"]]],
                  forecast |-> EmptyFrame]
            ELSE [called |-> TRUE, raised |-> FALSE, col |-> col,
                  monthly_data |-> monthly_data, months_needed |-> months_needed,
                  projected |-> TRUE,
                  history |-> [columns |-> {"date", col, "Type"},
                               rows |-> [k \in DOMAIN monthly_data |->
                                   [date |-> monthly_data[k].date,
                                    v |-> monthly_data[k].v, Type |-> "Actual"]]],
                  forecast |-> [columns |-> {"date", col, "Type"},
                                rows |-> [k \in 1 .. months_needed |->
                                   [date |-> last_date + k,
                                    v |-> ForecastCell(monthly_data, level),
                                    Type |-> "AI Forecast"]]]]

----------------------------------------------------------------------------
(* 4. Main script *)

Pages == {"AI Forecast 2026", "Demographics", "Muslim Tourism"}

NoExc == [site |-> "none", type |-> "none"]

NoTotals == [computed |-> FALSE, act_2026 |-> 0, fc_2026 |-> 0, total_2026 |-> 0]

NoView == [kind |-> "none"]

\* pd.concat([hist, pred]) restricted to date >= from
Combined(hist, pred, from) ==
    LET rows == hist.rows \o pred.rows
        keep == [i \in 1 .. Len(rows) |-> rows[i].date >= from]
    IN  [columns |-> hist.columns \cup pred.columns,
         rows    |-> SelectRows(rows, keep, Len(rows))]

\* frame[frame['date'].dt.year == 2026][col].sum()
Sum2026(frame) ==
    LET keep  == [i \in 1 .. Len(frame.rows) |-> YearOf(frame.rows[i].date) = 2026]
        sel   == SelectRows(frame.rows, keep, Len(frame.rows))
        cells == [i \in 1 .. Len(sel) |-> sel[i].v]
    IN  SumCells(cells, Len(cells))

\* muslim_total_proj / total_2026 on numpy floats: no exception, nan or inf
\* on a zero denominator
MarketShare(num, den) ==
    [kind |-> IF den # 0 THEN "number" ELSE IF num = 0 THEN "nan" ELSE "inf",
     num  |-> num, den |-> den]

Init ==
    /\ source \in Sources
    /\ pc = "load"
    /\ raw_df = <<>>
    /\ diag = <<>>
    /\ main_df = <<>>
    /\ raw_df_muslim = <<>>
    /\ gf_total = NoCall
    /\ gf_muslim = NoCall
    /\ combined_trend = EmptyFrame
    /\ combined_muslim_trend = EmptyFrame
    /\ totals = NoTotals
    /\ page = "none"
    /\ view = NoView
    /\ exc = NoExc

\* raw_df = load_gov_data()
Load ==
    /\ pc = "load"
    /\ LET r == load_gov_data(source)
       IN  /\ raw_df' = r.df
           /\ diag' = IF r.error # "" THEN Append(diag, r.error) ELSE diag
           /\ pc' = IF r.raised THEN "crashed" ELSE "main"
           /\ exc' = IF r.raised THEN [site |-> "load_gov_data", type |-> "Exception"]
                     ELSE exc
    /\ UNCHANGED <<source, main_df, raw_df_muslim, gf_total, gf_muslim, combined_trend,
                   combined_muslim_trend, totals, page, view>>

\* if not raw_df.empty: ... else: st.error("Could not load data ...")
CouldNotLoad ==
    /\ pc = "main"
    /\ raw_df = <<>>
    /\ diag' = Append(diag, "Could not load data. Check internet connection.")
    /\ pc' = "could_not_load"
    /\ UNCHANGED <<source, raw_df, main_df, raw_df_muslim, gf_total, gf_muslim,
                   combined_trend, combined_muslim_trend, totals, page, view, exc>>

\* main_df with Muslim_Ratio and Muslim_Est
PrepareMain ==
    /\ pc = "main"
    /\ raw_df # <<>>
    /\ main_df' = MainTable(raw_df)
    /\ pc' = "forecast_total"
    /\ UNCHANGED <<source, raw_df, diag, raw_df_muslim, gf_total, gf_muslim,
                   combined_trend, combined_muslim_trend, totals, page, view, exc>>

\* hist_total, pred_total = generate_forecast(raw_df, value_column='arrivals')
ForecastTotal ==
    /\ pc = "forecast_total"
    /\ \E nan_raises \in FitOutcomes(MonthlyData(raw_df, "arrivals")) :
       \E level \in ForecastLevels(MonthlyData(raw_df, "arrivals")) :
         LET r == generate_forecast(raw_df, "arrivals", nan_raises, level)
         IN  /\ gf_total' = r
             /\ pc' = IF r.raised THEN "crashed" ELSE "forecast_muslim"
             /\ exc' = IF r.raised
                       THEN [site |-> "generate_forecast(arrivals)", type |-> "ValueError"]
                       ELSE exc
    /\ UNCHANGED <<source, raw_df, diag, main_df, raw_df_muslim, gf_muslim,
                   combined_trend, combined_muslim_trend, totals, page, view>>

\* raw_df_muslim; hist_muslim, pred_muslim = generate_forecast(raw_df_muslim, 'Muslim_Est')
ForecastMuslim ==
    /\ pc = "forecast_muslim"
    /\ LET t == MuslimTable(raw_df)
       IN  /\ raw_df_muslim' = t
           /\ \E nan_raises \in FitOutcomes(MonthlyData(t, "Muslim_Est")) :
              \E level \in ForecastLevels(MonthlyData(t, "Muslim_Est")) :
                LET r == generate_forecast(t, "Muslim_Est", nan_raises, level)
                IN  /\ gf_muslim' = r
                    /\ pc' = IF r.raised THEN "crashed" ELSE "combine"
                    /\ exc' = IF r.raised
                              THEN [site |-> "generate_forecast(Muslim_Est)",
                                    type |-> "ValueError"]
                              ELSE exc
    /\ UNCHANGED <<source, raw_df, diag, main_df, gf_total, combined_trend,
                   combined_muslim_trend, totals, page, view>>

\* combined_trend, combined_muslim_trend
Combine ==
    /\ pc = "combine"
    /\ combined_trend' = Combined(gf_total.history, gf_total.forecast, YM(2023, 1))
    /\ combined_muslim_trend' =
           Combined(gf_muslim.history, gf_muslim.forecast, YM(2022, 1))
    /\ pc' = "totals"
    /\ UNCHANGED <<source, raw_df, diag, main_df, raw_df_muslim, gf_total, gf_muslim,
                   totals, page, view, exc>>

\* act_2026, fc_2026, total_2026; pred_total['date'] is a KeyError on a frame
\* without columns
Totals2026 ==
    /\ pc = "totals"
    /\ IF "date" \in gf_total.forecast.columns
       THEN /\ totals' = [computed |-> TRUE,
                          act_2026 |-> Sum2026(gf_total.history),
                          fc_2026 |-> Sum2026(gf_total.forecast),
                          total_2026 |-> Sum2026(gf_total.history)
                                           + Sum2026(gf_total.forecast)]
            /\ pc' = "page"
            /\ exc' = exc
       ELSE /\ totals' = [totals EXCEPT !.act_2026 = Sum2026(gf_total.history)]
            /\ pc' = "crashed"
            /\ exc' = [site |-> "fc_2026", type |-> "KeyError"]
    /\ UNCHANGED <<source, raw_df, diag, main_df, raw_df_muslim, gf_total, gf_muslim,
                   combined_trend, combined_muslim_trend, page, view>>

\* page 1: the three metrics
PageForecast ==
    /\ pc = "page"
    /\ page' = "AI Forecast 2026"
    /\ view' = [kind |-> "forecast", act_2026 |-> totals.act_2026,
                fc_2026 |-> totals.fc_2026, total_2026 |-> totals.total_2026]
    /\ pc' = "rendered"
    /\ UNCHANGED <<source, raw_df, diag, main_df, raw_df_muslim, gf_total, gf_muslim,
                   combined_trend, combined_muslim_trend, totals, exc>>

\* page 2: latest_year = main_df['year'].max()
PageDemographics ==
    /\ pc = "page"
    /\ page' = "Demographics"
    /\ view' = [kind |-> "demographics",
                latest_year |-> IF main_df = <<>> THEN NaN
                                ELSE Num(CHOOSE y \in {main_df[i].year : i \in DOMAIN main_df} :
                                           \A i \in DOMAIN main_df : main_df[i].year <= y)]
    /\ pc' = "rendered"
    /\ UNCHANGED <<source, raw_df, diag, main_df, raw_df_muslim, gf_total, gf_muslim,
                   combined_trend, combined_muslim_trend, totals, exc>>

\* page 3: muslim_total_proj and the market share
PageMuslim ==
    /\ pc = "page"
    /\ page' = "Muslim Tourism"
    /\ IF "date" \in gf_muslim.forecast.columns
       THEN LET muslim_2026_actual   == Sum2026(gf_muslim.history)
                muslim_2026_forecast == Sum2026(gf_muslim.forecast)
                muslim_total_proj    == muslim_2026_actual + muslim_2026_forecast
            IN  /\ view' = [kind |-> "muslim", muslim_total_proj |-> muslim_total_proj,
                            market_share |->
                                MarketShare(muslim_total_proj, totals.total_2026)]
                /\ pc' = "rendered"
                /\ exc' = exc
       ELSE /\ view' = view
            /\ pc' = "crashed"
            /\ exc' = [site |-> "muslim_2026_forecast", type |-> "KeyError"]
    /\ UNCHANGED <<source, raw_df, diag, main_df, raw_df_muslim, gf_total, gf_muslim,
                   combined_trend, combined_muslim_trend, totals>>

Next ==
    \/ Load
    \/ CouldNotLoad
    \/ PrepareMain
    \/ ForecastTotal
    \/ ForecastMuslim
    \/ Combine
    \/ Totals2026
    \/ PageForecast
    \/ PageDemographics
    \/ PageMuslim

Spec == Init /\ [][Next]_vars

----------------------------------------------------------------------------
(* Properties *)

Returned(gf) == gf.called /\ ~gf.raised

ObservedMonths(df) == {df[i].date.m : i \in DOMAIN df}

LastObserved(df) == MaxDate(df).m

RowsOf(seq) == {seq[i] : i \in DOMAIN seq}

RECURSIVE MonthSum(_, _, _, _)
\* the sum of col over the rows i <= n of df whose date falls in month mi
MonthSum(df, col, mi, n) ==
    IF n = 0 THEN 0
    ELSE MonthSum(df, col, mi, n - 1) + (IF df[n].date.m = mi THEN ColValue(df[n], col) ELSE 0)

C1Holds(gf, df) ==
    (/\ Returned(gf)
     /\ Len(gf.monthly_data) >= 2 * seasonal_periods
     /\ LastObserved(df) < target_date)
    => LET L == LastObserved(df)
           h == gf.history.rows
           f == gf.forecast.rows
       IN  /\ \A mi \in ObservedMonths(df) :
                 Cardinality({k \in DOMAIN h : h[k].date = mi}) = 1
           /\ {f[k].date : k \in DOMAIN f} = (L + 1) .. target_date
           /\ \A j, k \in DOMAIN f : f[j].date = f[k].date => j = k
           /\ Len(f) = (YearOf(target_date) - YearOf(L)) * 12
                          + (MonthOf(target_date) - MonthOf(L))

\* C1: on a table whose aggregated history spans at least 24 months and whose
\* last observed month L is before 2026-12, generate_forecast returns a
\* history with every observed month exactly once and a forecast dated
\* exactly L+1 .. 2026-12, each month once, (H.year - L.year)*12 +
\* (H.month - L.month) rows in all.
C1_HistoryAndForecastCoverMonths ==
    /\ C1Holds(gf_total, raw_df)
    /\ C1Holds(gf_muslim, raw_df_muslim)

C2Holds(gf, df) ==
    (Returned(gf) /\ target_date <= LastObserved(df))
    => /\ gf.forecast = EmptyFrame
       /\ Len(gf.history.rows) = Len(MonthlyData(df, gf.col))
       /\ ~gf.projected

C3Holds(gf) ==
    Returned(gf)
    => LET h    == gf.history.rows
           f    == gf.forecast.rows
           rows == h \o f
       IN  /\ "Type" \in (gf.history.columns \cup gf.forecast.columns)
           /\ {rows[i].Type : i \in DOMAIN rows} = {"Actual", "AI Forecast"}
           /\ {r \in RowsOf(rows) : r.Type = "Actual"} = RowsOf(h)
           /\ {r \in RowsOf(rows) : r.Type = "AI Forecast"} = RowsOf(f)
           /\ {h[k].date : k \in DOMAIN h} \cap {f[k].date : k \in DOMAIN f} = {}

\* C3: on every return path of generate_forecast, grouping the concatenation
\* of history and forecast by label gives exactly the two groups "Actual"
\* (the history rows) and "AI Forecast" (the forecast rows), with no date in
\* both.
C3_LabelsPartitionHistoryAndForecast ==
    /\ C3Holds(gf_total)
    /\ C3Holds(gf_muslim)

\* C4: a failure at any step of load_gov_data reaches no caller: a diagnostic
\* is emitted, the table returned is empty, and the script then runs neither
\* the aggregation nor generate_forecast and raises nothing, ending in the
\* "could not load data" state.
C4_LoadFailureDegradesToCouldNotLoad ==
    (source.fault # "none" /\ pc # "load")
    => /\ exc = NoExc
       /\ raw_df = <<>>
       /\ Len(diag) >= 1
       /\ diag[1] = "Data Error: " \o source.fault
       /\ pc \in {"main", "could_not_load"}
       /\ (pc = "main" => ENABLED CouldNotLoad)
       /\ (pc = "could_not_load" =>
              diag = <<"Data Error: " \o source.fault,
                       "Could not load data. Check internet connection.">>)
       /\ main_df = <<>>
       /\ raw_df_muslim = <<>>
       /\ ~gf_total.called
       /\ ~gf_muslim.called
       /\ ~totals.computed

C4_Witness ==
    /\ source.fault = "no_country_column"
    /\ pc = "could_not_load"
    /\ raw_df = <<>>

\* C5: when the history already reaches 2026-12 and generate_forecast returns
\* an empty forecast table, the script that follows (concatenation, date
\* filters, 2026 totals) raises nothing, and the forecast part of the 2026
\* total is zero.
C5_EmptyForecastPipelineCompletes ==
    (/\ Returned(gf_total)
     /\ Returned(gf_muslim)
     /\ gf_total.forecast.rows = <<>>)
    => /\ pc # "crashed"
       /\ exc = NoExc
       /\ (pc \in {"page", "rendered"} => totals.computed /\ totals.fc_2026 = 0)

\* C6: a failure of the model fit for one series is caught inside the forecast
\* step: no exception escapes generate_forecast, and the failure of one
\* series' forecast does not stop the script.
C6_FitFailureIsCaught ==
    /\ ~(gf_total.called /\ gf_total.raised)
    /\ ~(gf_muslim.called /\ gf_muslim.raised)
    /\ exc.site \notin {"generate_forecast(arrivals)", "generate_forecast(Muslim_Est)"}

\* C7: every row of the table fed to the segment forecast carries the weight
\* RELIGION_PROXY[display name] when its display name is a key of
\* RELIGION_PROXY and 0.05 otherwise, its estimate is arrivals times that
\* weight truncated, and the estimate equals the Muslim_Est main_df holds for
\* the same row.
C7_SegmentWeightByDisplayName ==
    \A i \in DOMAIN raw_df_muslim :
        LET r    == raw_df_muslim[i]
            name == IF r.country \in DOMAIN ISO_MAP THEN ISO_MAP[r.country] ELSE r.country
            w    == IF name \in DOMAIN RELIGION_PROXY THEN RELIGION_PROXY[name] ELSE 5
        IN  /\ r.Muslim_Ratio = w
            /\ r.Muslim_Est = (r.arrivals * w) \div 100
            /\ \A j \in DOMAIN main_df :
                   main_df[j].idx = r.idx => main_df[j].Muslim_Est = r.Muslim_Est

C8Holds(gf, df) ==
    gf.called
    => \A mi \in ObservedMonths(df) :
          /\ Cardinality({k \in DOMAIN gf.monthly_data : gf.monthly_data[k].date = mi}) = 1
          /\ \A k \in DOMAIN gf.monthly_data :
                gf.monthly_data[k].date = mi
                => gf.monthly_data[k].v = Num(MonthSum(df, gf.col, mi, Len(df)))

\* C8: the aggregation yields, for every calendar month with at least one
\* input row, a single point whose value is the sum of the value column over
\* all rows of that month, whatever their day of month.
C8_AggregationSumsWholeMonth ==
    /\ C8Holds(gf_total, raw_df)
    /\ C8Holds(gf_muslim, raw_df_muslim)

C9Holds(gf) ==
    gf.called
    => /\ \A k \in DOMAIN gf.monthly_data : ~gf.monthly_data[k].v.nan
       /\ \A k \in DOMAIN gf.history.rows : ~gf.history.rows[k].v.nan

\* C9: the monthly series handed to the fit, and returned as history, has a
\* defined value for every month between the first and the last observed
\* month: a month without input rows is filled, never left missing.
C9_NoMissingMonthInSeries ==
    /\ C9Holds(gf_total)
    /\ C9Holds(gf_muslim)

\* C10: the market share shown on the segment page is always a defined value
\* between 0% and 100%, also when the 2026 projection of total arrivals is
\* zero.
C10_MarketShareWithinBounds ==
    view.kind = "muslim"
    => /\ view.market_share.kind = "number"
       /\ 0 <= view.market_share.num
       /\ view.market_share.num <= view.market_share.den

====
